---- MODULE Spec2Model ----
(***************************************************************************)
(* The e-commerce API of main.py: the store (products, customers, orders,  *)
(* categories), the request handlers that change it, the order enrichment  *)
(* and the sales analysis, each handler one atomic action of Spec.         *)
(*                                                                         *)
(* Values.  Python's None, True and False are the integers None, True and  *)
(* False, so that a nullable column holds one sort of value; Truthy is     *)
(* Python's truth test on them.  Money is counted in cents (29.99 is       *)
(* 2999).  The clock `now` counts minutes, the precision that the          *)
(* enrichment's strftime('%Y-%m-%d %H:%M') keeps.  The display-only        *)
(* strings of an order (address, phone, date) and of a customer            *)
(* (last_name, phone, password) are not modelled: no handler branches on   *)
(* them and they are always valid in a response.                           *)
(*                                                                         *)
(* The store is the external relational database: it keeps primary keys    *)
(* unique, keeps Customer.email unique (main.py line 64), does not check   *)
(* foreign keys (an order may reference a deleted product), and gives a    *)
(* new row the id after the largest one in use.                            *)
(***************************************************************************)
EXTENDS Integers, Sequences, FiniteSets, TLC

\* ------------------------------------------------------------------ values
None == -1
True == 1
False == 0

\* Python's `if v` / `not v` on None, a bool, an int or a datetime.
Truthy(v) == v # None /\ v # 0

\* ------------------------------------------------------------------ bounds
MaxProducts == 2
MaxCustomers == 2
MaxOrders == 2
MaxCategories == 1
MaxTime == 2
NumProcs == 2

ProductIds == 1..MaxProducts
CustomerIds == 1..MaxCustomers
OrderIds == 1..MaxOrders

\* ------------------------------------------------------------------ inputs
\* The payloads that clients send.  Each specification below draws its
\* requests from these sets, or from a part of them.
SaleProduct == [name |-> "P", price |-> 10000, is_sale |-> True, sale_price |-> 8000]
ListProduct == [name |-> "P", price |-> 10000, is_sale |-> False, sale_price |-> 8000]

\* ProductUpdate: only the fields the client sent are in the record
\* (dict(exclude_unset=True)); a field sent as null is None.
ProductUpdates ==
    { [is_sale |-> True], [is_sale |-> False], [sale_price |-> 0],
      [sale_price |-> None], [name |-> "P", price |-> 10000] }

SampleEmail == "john.doe@example.com"
Emails == {"a@x.io", SampleEmail}
FirstNames == {"Ann", "Bob"}
CustomerCreates == [first_name : FirstNames, email : Emails]
Ann == [first_name |-> "Ann", email |-> "a@x.io"]

\* OrderCreate: product_id, customer_id and quantity are ints, never null.
\* One id past the bound is an id that resolves to nothing.
OrderCreates ==
    [product_id : 1..(MaxProducts + 1), customer_id : {1, MaxCustomers + 1},
     quantity : {1, 3}]

\* OrderUpdate: each field is optional and nullable; the record holds the
\* fields present in the payload, a null one as None.
EmptyUpdate == [x \in {} |-> None]
StatusUpdates ==
    { [status |-> True], [status |-> False], [status |-> None],
      [quantity |-> 3, status |-> True], EmptyUpdate }
FieldUpdates ==
    { [quantity |-> None], [customer_id |-> MaxCustomers + 1],
      [status |-> True], [status |-> None] }

\* OrderUpdate payloads with and without a status field, one of them with a
\* field given as null.
FrameUpdates ==
    { [quantity |-> 3], [customer_id |-> MaxCustomers + 1], [quantity |-> None],
      [status |-> True], [status |-> False], [product_id |-> 2, status |-> True] }

\* OrderUpdate payloads of requests that run concurrently.
RacingUpdates == { [status |-> True], [status |-> False], [status |-> None], [quantity |-> 3] }

\* ------------------------------------------------------------------ state
VARIABLES
    products,    \* rows of store_product
    customers,   \* rows of store_customer
    orders,      \* rows of store_order
    categories,  \* number of rows of store_category
    now,         \* the clock read by datetime.datetime.now()
    last,        \* the last request and the status of its response
    stamp,       \* history: per order id, see StampAfter
    issued,      \* history: per email, the id that POST /customers first returned
    pc,          \* concurrent requests: where each one is
    local,       \* concurrent requests: what each one holds in its session
    res          \* concurrent requests: the response each one ended in

vars == <<products, customers, orders, categories, now, last, stamp, issued,
          pc, local, res>>
hist == <<stamp, issued>>
conc == <<pc, local, res>>

\* db.query(T).filter(T.id == id): the rows with that id (at most one).
ById(table, id) == { r \in table : r.id = id }
Row(table, id) == CHOOSE r \in table : r.id = id
UsedIds(table) == { r.id : r \in table }
\* The id an INSERT without one gets: one more than the largest id in use.
NewId(table) ==
    IF table = {} THEN 1
    ELSE (CHOOSE i \in UsedIds(table) : \A j \in UsedIds(table) : j <= i) + 1

\* ------------------------------------------------------------------ responses
\* What a handler ends in, before the application's exception handlers.
Return(code, body) == [kind |-> "return", status |-> code, detail |-> "", body |-> body]
HTTPException(code, detail) ==
    [kind |-> "HTTPException", status |-> code, detail |-> detail, body |-> <<>>]
\* Any exception that is not an HTTPException: TypeError, IntegrityError,
\* ResponseValidationError.
Unhandled(what) == [kind |-> "exception", status |-> 500, detail |-> what, body |-> <<>>]

\* @app.exception_handler(404): every HTTPException with status 404 is
\* answered by not_found_handler, whatever its detail.
not_found_handler == [status |-> 404, detail |-> "Resource not found", body |-> <<>>]
\* @app.exception_handler(500)
internal_server_error_handler ==
    [status |-> 500, detail |-> "Internal server error", body |-> <<>>]

\* The response the client receives for an outcome.
Respond(out) ==
    CASE out.kind = "return" -> [status |-> out.status, detail |-> "", body |-> out.body]
      [] out.kind = "HTTPException" /\ out.status = 404 -> not_found_handler
      [] out.kind = "HTTPException" ->
            [status |-> out.status, detail |-> out.detail, body |-> <<>>]
      [] OTHER -> internal_server_error_handler

\* What `last` keeps of a request: the handler, the id it was about (0 when
\* none), the status field it carried (PUT /orders; None elsewhere), the
\* status code of the response received, and in `prev` what the handler's
\* first query found: the order's date_shipped (PUT /orders), the number of
\* customers with the email (POST /customers), None elsewhere.
Last(op, id, arg, out) ==
    [op |-> op, id |-> id, arg |-> arg, status |-> Respond(out).status, prev |-> None]

\* ------------------------------------------------------------------ pricing
\* A Python expression's value, or the TypeError it raises.
Value(v) == [ok |-> TRUE, v |-> v]
TypeError == [ok |-> FALSE, v |-> None]

\* `product.sale_price if product.is_sale and product.sale_price > 0 else
\* product.price`: None > 0 raises.  One definition per place of the source
\* that spells the expression out.
price_enrich(product) ==
    IF Truthy(product.is_sale)
    THEN IF product.sale_price = None THEN TypeError
         ELSE IF product.sale_price > 0 THEN Value(product.sale_price)
         ELSE Value(product.price)
    ELSE Value(product.price)

price_create_order(product) ==
    IF Truthy(product.is_sale)
    THEN IF product.sale_price = None THEN TypeError
         ELSE IF product.sale_price > 0 THEN Value(product.sale_price)
         ELSE Value(product.price)
    ELSE Value(product.price)

price_revenue(product) ==
    IF Truthy(product.is_sale)
    THEN IF product.sale_price = None THEN TypeError
         ELSE IF product.sale_price > 0 THEN Value(product.sale_price)
         ELSE Value(product.price)
    ELSE Value(product.price)

price_highest(product) ==
    IF Truthy(product.is_sale)
    THEN IF product.sale_price = None THEN TypeError
         ELSE IF product.sale_price > 0 THEN Value(product.sale_price)
         ELSE Value(product.price)
    ELSE Value(product.price)

\* float(price) * quantity, and quantity * price: None in either place raises.
Times(price, quantity) ==
    IF ~price.ok \/ price.v = None \/ quantity = None THEN TypeError
    ELSE Value(price.v * quantity)

\* ------------------------------------------------------------------ enrichment
\* enrich_order_details: "None" when the product or the customer is missing,
\* "TypeError" when the price or the amount cannot be computed, else the view.
enrich_order_details(order) ==
    LET ps == ById(products, order.product_id)
        cs == ById(customers, order.customer_id)
    IN  IF ps = {} \/ cs = {} THEN [kind |-> "None"]
        ELSE LET product == CHOOSE p \in ps : TRUE
                 customer == CHOOSE c \in cs : TRUE
                 price == price_enrich(product)
                 amount_paid == Times(price, order.quantity)
             IN  IF ~amount_paid.ok THEN [kind |-> "TypeError"]
                 ELSE [kind |-> "view",
                       id |-> order.id,
                       first_name |-> customer.first_name,
                       email |-> customer.email,
                       amount_paid |-> amount_paid.v,
                       shipped |-> order.status,
                       date_shipped |-> order.date_shipped,
                       items_list |-> <<[name |-> product.name,
                                         quantity |-> order.quantity,
                                         price |-> price.v]>>]

\* Validation of one enriched value against DjangoOrderResponse: it must be a
\* record and `shipped: bool` must be a bool (None is refused).
ValidDjangoOrderResponse(e) == e.kind = "view" /\ e.shipped \in {True, False}

\* ------------------------------------------------------------------ history
Unset == -2

\* The status field of an OrderUpdate payload, Unset when it is omitted.
StatusField(payload) == IF "status" \in DOMAIN payload THEN payload.status ELSE Unset

\* History of one order for the re-ship rule: the time of the first PUT with
\* status=true that found date_shipped unset, kept until a PUT with
\* status=false.  `g` is the history before the PUT of `payload` on the row
\* `old`, `t` the time of the PUT.
StampAfter(g, old, payload, t) ==
    LET st == StatusField(payload)
    IN  IF st = False THEN None
        ELSE IF st = True /\ old.date_shipped = None /\ g = None THEN t
        ELSE g

\* ------------------------------------------------------------------ products
\* POST /products
create_product(payload) ==
    \E id \in ProductIds \cap {NewId(products)} :
        LET db_product == [id |-> id, name |-> payload.name, price |-> payload.price,
                           is_sale |-> payload.is_sale, sale_price |-> payload.sale_price]
        IN  /\ products' = products \cup {db_product}
            /\ last' = Last("create_product", id, None, Return(201, <<db_product>>))
            /\ UNCHANGED <<customers, orders, categories, now, hist, conc>>

\* A field of ProductUpdate.dict(): None when the payload omits it.
Field(payload, f) == IF f \in DOMAIN payload THEN payload[f] ELSE None
\* The column default that an INSERT applies to a field left None.
OrDefault(v, default) == IF v = None THEN default ELSE v

\* ProductResponse declares price, is_sale and sale_price without Optional: a
\* row holding NULL in one of them fails the response validation.
ValidProductResponse(p) == p.price # None /\ p.is_sale # None /\ p.sale_price # None

\* The row after `for key, value in product.dict(exclude_unset=True).items():
\* setattr(db_product, key, value)`.
UpdatedProduct(old, payload) ==
    [id |-> old.id,
     name |-> IF "name" \in DOMAIN payload THEN payload.name ELSE old.name,
     price |-> IF "price" \in DOMAIN payload THEN payload.price ELSE old.price,
     is_sale |-> IF "is_sale" \in DOMAIN payload THEN payload.is_sale ELSE old.is_sale,
     sale_price |-> IF "sale_price" \in DOMAIN payload THEN payload.sale_price
                    ELSE old.sale_price]

\* PUT /products/{product_id}: an upsert.  A missing product is inserted with
\* the given id; a payload without a name breaks name's NOT NULL (line 49) and
\* the commit raises IntegrityError.
update_product(product_id, payload) ==
    /\ UNCHANGED <<customers, orders, categories, now, hist, conc>>
    /\ IF ById(products, product_id) = {}
       THEN IF "name" \notin DOMAIN payload
            THEN /\ products' = products
                 /\ last' = Last("update_product", product_id, None,
                                 Unhandled("IntegrityError"))
            ELSE LET new_product ==
                         [id |-> product_id, name |-> payload.name,
                          price |-> OrDefault(Field(payload, "price"), 0),
                          is_sale |-> OrDefault(Field(payload, "is_sale"), False),
                          sale_price |-> OrDefault(Field(payload, "sale_price"), 0)]
                 IN  /\ products' = products \cup {new_product}
                     /\ last' = Last("update_product", product_id, None,
                                     Return(200, <<new_product>>))
       ELSE LET old == Row(products, product_id)
                db_product == UpdatedProduct(old, payload)
            IN  /\ products' = (products \ {old}) \cup {db_product}
                /\ last' = Last("update_product", product_id, None,
                                IF ValidProductResponse(db_product)
                                THEN Return(200, <<db_product>>)
                                ELSE Unhandled("ResponseValidationError"))

\* DELETE /products/{product_id}
delete_product(product_id) ==
    /\ UNCHANGED <<customers, orders, categories, now, hist, conc>>
    /\ IF ById(products, product_id) = {}
       THEN /\ products' = products
            /\ last' = Last("delete_product", product_id, None,
                            HTTPException(404, "Product not found"))
       ELSE /\ products' = products \ ById(products, product_id)
            /\ last' = Last("delete_product", product_id, None, Return(200, <<>>))

\* ------------------------------------------------------------------ customers
\* db.query(Customer).filter(Customer.email == email)
ByEmail(email) == { c \in customers : c.email = email }

\* The response body of a customer (CustomerResponse).
CustomerResponse(c) == [id |-> c.id, first_name |-> c.first_name, email |-> c.email]

\* The store's unique index on Customer.email (line 64): an INSERT of a second
\* row with an email in use is refused and the commit raises IntegrityError.
EmailInUse(email) == \E c \in customers : c.email = email

\* Lines 171-175: db.add, db.commit, db.refresh of a new customer.  The
\* table after the commit and what the handler ends in.
insert_customer(payload) ==
    IF EmailInUse(payload.email)
    THEN [customers |-> customers, id |-> 0, out |-> Unhandled("IntegrityError")]
    ELSE LET db_customer == [id |-> NewId(customers), first_name |-> payload.first_name,
                             email |-> payload.email]
         IN  [customers |-> customers \cup {db_customer}, id |-> db_customer.id,
              out |-> Return(201, <<CustomerResponse(db_customer)>>)]

\* create_customer_result without the test of line 168.
create_customer_result_no_test(payload, existing) == insert_customer(payload)

\* Lines 167-175 once the query of line 167 has returned the rows `existing`:
\* an existing customer is returned as it is, otherwise a row is inserted.
create_customer_result(payload, existing) ==
    IF existing # {}
    THEN LET c == CHOOSE x \in existing : TRUE
         IN  [customers |-> customers, id |-> c.id,
              out |-> Return(201, <<CustomerResponse(c)>>)]
    ELSE insert_customer(payload)

\* POST /customers, the query and the insert in one step.
create_customer(payload) ==
    LET r == create_customer_result(payload, ByEmail(payload.email))
    IN  /\ r.id \in CustomerIds \cup {0}
        /\ customers' = r.customers
        /\ last' = [Last("create_customer", r.id, None, r.out)
                        EXCEPT !.prev = Cardinality(ByEmail(payload.email))]
        /\ issued' = IF issued[payload.email] = None /\ r.out.kind = "return"
                     THEN [issued EXCEPT ![payload.email] = r.id]
                     ELSE issued
        /\ UNCHANGED <<products, orders, categories, now, stamp, conc>>

\* Two or more POST /customers at once: each request runs the query of line
\* 167 in its own session, and later the rest of the handler.
Procs == 1..NumProcs
\* A request not yet made, and its response.
NoRequest == [payload |-> Ann, existing |-> {}]
NoResponse == [status |-> 0, id |-> 0]

customer_query(p, payload) ==
    /\ pc[p] = "idle"
    /\ pc' = [pc EXCEPT ![p] = "queried"]
    /\ local' = [local EXCEPT ![p] = [payload |-> payload,
                                      existing |-> ByEmail(payload.email)]]
    /\ UNCHANGED <<products, customers, orders, categories, now, last, hist, res>>

customer_commit(p) ==
    /\ pc[p] = "queried"
    /\ LET r == create_customer_result(local[p].payload, local[p].existing)
       IN  /\ r.id \in CustomerIds \cup {0}
           /\ customers' = r.customers
           /\ res' = [res EXCEPT ![p] = [status |-> Respond(r.out).status, id |-> r.id]]
    /\ pc' = [pc EXCEPT ![p] = "done"]
    /\ UNCHANGED <<products, orders, categories, now, last, hist, local>>

\* ------------------------------------------------------------------ orders
\* The response body of POST /orders (OrderResponse).
OrderResponse(db_order, amount_paid, customer) ==
    [id |-> db_order.id, product_id |-> db_order.product_id,
     customer_id |-> db_order.customer_id, quantity |-> db_order.quantity,
     status |-> db_order.status, date_shipped |-> db_order.date_shipped,
     amount_paid |-> amount_paid, customer_email |-> customer.email]

\* NewOrder storing the column default of quantity instead of the payload's.
NewOrder_default_quantity(id, payload) ==
    [id |-> id, product_id |-> payload.product_id, customer_id |-> payload.customer_id,
     quantity |-> 1, status |-> False, date_shipped |-> None]

\* The row that `Order(**order.dict())` inserts: status takes the column
\* default False (line 77), date_shipped stays NULL (line 78).
NewOrder(id, payload) ==
    [id |-> id, product_id |-> payload.product_id, customer_id |-> payload.customer_id,
     quantity |-> payload.quantity, status |-> False, date_shipped |-> None]

\* POST /orders: the table after the request and what the handler ends in.
create_order_result(payload) ==
    IF ById(products, payload.product_id) = {}
    THEN [orders |-> orders, id |-> 0,
          out |-> HTTPException(404, "Product with ID not found")]
    ELSE IF ById(customers, payload.customer_id) = {}
    THEN [orders |-> orders, id |-> 0, out |-> HTTPException(404, "Customer not found")]
    ELSE LET product == Row(products, payload.product_id)
             customer == Row(customers, payload.customer_id)
             db_order == NewOrder(NewId(orders), payload)
             amount_paid == Times(price_create_order(product), db_order.quantity)
         IN  [orders |-> orders \cup {db_order}, id |-> db_order.id,
              out |-> IF amount_paid.ok
                      THEN Return(201, <<OrderResponse(db_order, amount_paid.v, customer)>>)
                      ELSE Unhandled("TypeError")]

create_order(payload) ==
    LET r == create_order_result(payload)
    IN  /\ r.id \in OrderIds \cup {0}
        /\ orders' = r.orders
        /\ last' = Last("create_order", r.id, None, r.out)
        /\ UNCHANGED <<products, customers, categories, now, hist, conc>>

\* ShippedDate without the branch that clears on a null status.
ShippedDate_keeps_on_null(old, value, t) ==
    IF Truthy(value) /\ ~Truthy(old.date_shipped) THEN t
    ELSE IF value = False THEN None
    ELSE old.date_shipped

\* The date_shipped that the status branch of update_order leaves (lines
\* 273-277): stamped when the new status is truthy and none is set, cleared
\* when the new status is falsy (False or None), else kept.
ShippedDate(old, value, t) ==
    IF Truthy(value) /\ ~Truthy(old.date_shipped) THEN t
    ELSE IF ~Truthy(value) THEN None
    ELSE old.date_shipped

\* UpdatedOrder with order.dict() in place of order.dict(exclude_unset=True):
\* an omitted field arrives as None and is written like a given one.
UpdatedOrder_all_fields(old, payload, t) ==
    [id |-> old.id,
     product_id |-> Field(payload, "product_id"),
     customer_id |-> Field(payload, "customer_id"),
     quantity |-> Field(payload, "quantity"),
     status |-> Field(payload, "status"),
     date_shipped |-> ShippedDate(old, Field(payload, "status"), t)]

\* The row after the loop of update_order (lines 271-278) over the payload's
\* fields, at time t.
UpdatedOrder(old, payload, t) ==
    [id |-> old.id,
     product_id |-> IF "product_id" \in DOMAIN payload THEN payload.product_id
                    ELSE old.product_id,
     customer_id |-> IF "customer_id" \in DOMAIN payload THEN payload.customer_id
                     ELSE old.customer_id,
     quantity |-> IF "quantity" \in DOMAIN payload THEN payload.quantity ELSE old.quantity,
     status |-> IF "status" \in DOMAIN payload THEN payload.status ELSE old.status,
     date_shipped |-> IF "status" \in DOMAIN payload
                      THEN ShippedDate(old, payload.status, t)
                      ELSE old.date_shipped]

\* What a handler with response_model=DjangoOrderResponse ends in when it
\* returns the enriched value e.
ReturnEnriched(e) ==
    IF e.kind = "TypeError" THEN Unhandled("TypeError")
    ELSE IF ValidDjangoOrderResponse(e) THEN Return(200, <<e>>)
    ELSE Unhandled("ResponseValidationError")

\* PUT /orders/{order_id}: the table after the request and what the handler
\* ends in.  The commit (line 280) comes before the enrichment (line 283),
\* which reads the committed store.
update_order_result(order_id, payload) ==
    IF ById(orders, order_id) = {}
    THEN [orders |-> orders, out |-> HTTPException(404, "Order not found")]
    ELSE LET old == Row(orders, order_id)
             db_order == UpdatedOrder(old, payload, now)
         IN  [orders |-> (orders \ {old}) \cup {db_order},
              out |-> ReturnEnriched(enrich_order_details(db_order))]

update_order(order_id, payload) ==
    /\ UNCHANGED <<products, customers, categories, now, issued, conc>>
    /\ orders' = update_order_result(order_id, payload).orders
    /\ IF ById(orders, order_id) = {}
       THEN /\ UNCHANGED stamp
            /\ last' = Last("update_order", order_id, StatusField(payload),
                            update_order_result(order_id, payload).out)
       ELSE LET old == Row(orders, order_id)
            IN  /\ stamp' = [stamp EXCEPT ![order_id] = StampAfter(@, old, payload, now)]
                /\ last' = [Last("update_order", order_id, StatusField(payload),
                                     update_order_result(order_id, payload).out)
                                EXCEPT !.prev = old.date_shipped]

\* DELETE /orders/{order_id}
delete_order(order_id) ==
    /\ UNCHANGED <<products, customers, categories, now, issued, conc>>
    /\ IF ById(orders, order_id) = {}
       THEN /\ UNCHANGED <<orders, stamp>>
            /\ last' = Last("delete_order", order_id, None,
                            HTTPException(404, "Order not found"))
       ELSE /\ orders' = orders \ ById(orders, order_id)
            /\ stamp' = [stamp EXCEPT ![order_id] = None]
            /\ last' = Last("delete_order", order_id, None, Return(200, <<>>))

\* PUT /orders/{order_id} in concurrent requests, each in its own session
\* (get_db): a request runs the query of line 267, later the loop and the
\* commit of lines 271-280, later the refresh and the enrichment of lines
\* 281-283.
\*
\* The row that db.commit() leaves: the session's UPDATE sets the columns
\* whose value the handler changed from the one it loaded (`old` to `new`) on
\* the row as the store holds it then (`current`); a column set to the value
\* it was loaded with is not written.
Flushed(current, old, new) ==
    [f \in DOMAIN current |-> IF new[f] # old[f] THEN new[f] ELSE current[f]]

order_query(p, order_id, payload) ==
    /\ pc[p] = "idle"
    /\ pc' = [pc EXCEPT ![p] = "queried"]
    /\ local' = [local EXCEPT ![p] = [payload |-> payload,
                                      existing |-> ById(orders, order_id)]]
    /\ UNCHANGED <<products, customers, orders, categories, now, last, hist, res>>

order_commit(p) ==
    /\ pc[p] = "queried"
    /\ UNCHANGED <<products, customers, categories, now, last, hist, local>>
    /\ IF local[p].existing = {}
       THEN /\ orders' = orders
            /\ pc' = [pc EXCEPT ![p] = "done"]
            /\ res' = [res EXCEPT ![p] =
                          [status |-> Respond(HTTPException(404, "Order not found")).status,
                           id |-> 0]]
       ELSE LET old == CHOOSE r \in local[p].existing : TRUE
                db_order == UpdatedOrder(old, local[p].payload, now)
            IN  IF ById(orders, old.id) = {}
                THEN /\ orders' = orders
                     /\ pc' = [pc EXCEPT ![p] = "done"]
                     /\ res' = [res EXCEPT ![p] =
                                   [status |-> Respond(Unhandled("StaleDataError")).status,
                                    id |-> old.id]]
                ELSE /\ orders' = (orders \ ById(orders, old.id))
                                     \cup {Flushed(Row(orders, old.id), old, db_order)}
                     /\ pc' = [pc EXCEPT ![p] = "committed"]
                     /\ res' = res

order_respond(p) ==
    /\ pc[p] = "committed"
    /\ pc' = [pc EXCEPT ![p] = "done"]
    /\ LET id == (CHOOSE r \in local[p].existing : TRUE).id
           out == IF ById(orders, id) = {} THEN Unhandled("InvalidRequestError")
                  ELSE ReturnEnriched(enrich_order_details(Row(orders, id)))
       IN  res' = [res EXCEPT ![p] = [status |-> Respond(out).status, id |-> id]]
    /\ UNCHANGED <<products, customers, orders, categories, now, last, hist, local>>

\* ------------------------------------------------------------------ order lists
\* The sequences that list the rows of S once each: a query without ORDER BY
\* returns its rows in an order the store chooses.
Orderings(S) ==
    { q \in [1..Cardinality(S) -> S] : \A i, j \in 1..Cardinality(S) : q[i] = q[j] => i = j }

\* order_by(Order.id.desc())
ByIdDesc(S) ==
    CHOOSE q \in Orderings(S) : \A i, j \in 1..Cardinality(S) : i < j => q[i].id > q[j].id

\* offset(skip).limit(limit)
OffsetLimit(q, skip, limit) ==
    SubSeq(q, skip + 1, IF skip + limit < Len(q) THEN skip + limit ELSE Len(q))

\* `[res for res in response_list if res is not None]`
RECURSIVE SelectViews(_)
SelectViews(q) ==
    IF q = <<>> THEN <<>>
    ELSE IF Head(q).kind = "None" THEN SelectViews(Tail(q))
    ELSE <<Head(q)>> \o SelectViews(Tail(q))

\* `[enrich_order_details(order, db) for order in rows]`, then the elements
\* that are not None, returned under response_model=List[DjangoOrderResponse].
EnrichedList(rows) ==
    LET response_list == [i \in 1..Len(rows) |-> enrich_order_details(rows[i])]
        kept == SelectViews(response_list)
    IN  IF \E i \in 1..Len(rows) : response_list[i].kind = "TypeError"
        THEN Unhandled("TypeError")
        ELSE IF \E i \in 1..Len(kept) : ~ValidDjangoOrderResponse(kept[i])
        THEN Unhandled("ResponseValidationError")
        ELSE Return(200, kept)

\* The rows that GET /orders selects: `shipped` is None, True or False, and
\* the SQL comparison status = shipped never selects a NULL status.
SelectedOrders(shipped) ==
    IF shipped = None THEN orders ELSE { o \in orders : o.status = shipped }

\* GET /orders
get_all_orders(skip, limit, shipped) ==
    /\ last' = Last("get_all_orders", 0, None,
                    EnrichedList(OffsetLimit(ByIdDesc(SelectedOrders(shipped)), skip, limit)))
    /\ UNCHANGED <<products, customers, orders, categories, now, hist, conc>>

\* GET /orders/{order_id}
get_order_outcome(order_id) ==
    IF ById(orders, order_id) = {}
    THEN HTTPException(404, "Order not found")
    ELSE LET enriched == enrich_order_details(Row(orders, order_id))
         IN  IF enriched.kind = "None"
             THEN HTTPException(404,
                      "Associated product or customer not found for this order")
             ELSE ReturnEnriched(enriched)

get_order(order_id) ==
    /\ last' = Last("get_order", order_id, None, get_order_outcome(order_id))
    /\ UNCHANGED <<products, customers, orders, categories, now, hist, conc>>

\* GET /orders-shipped
get_orders_shipped ==
    /\ \E rows \in Orderings({ o \in orders : o.status = True }) :
           last' = Last("get_orders_shipped", 0, None, EnrichedList(rows))
    /\ UNCHANGED <<products, customers, orders, categories, now, hist, conc>>

\* GET /orders-unshipped
get_orders_unshipped ==
    /\ \E rows \in Orderings({ o \in orders : o.status = False }) :
           last' = Last("get_orders_unshipped", 0, None, EnrichedList(rows))
    /\ UNCHANGED <<products, customers, orders, categories, now, hist, conc>>

\* ------------------------------------------------------------------ analysis
\* The loops of lines 320-325 and 337-340 over the rows S, product's price
\* being `price`: the sums of order.quantity * price and of order.quantity.
RECURSIVE SumRevenue(_, _)
SumRevenue(S, price) ==
    IF S = {} THEN 0
    ELSE LET o == CHOOSE x \in S : TRUE
         IN  o.quantity * price + SumRevenue(S \ {o}, price)

RECURSIVE SumQuantity(_)
SumQuantity(S) ==
    IF S = {} THEN 0
    ELSE LET o == CHOOSE x \in S : TRUE
         IN  o.quantity + SumQuantity(S \ {o})

\* Whether the loop body raises on some row of S: the price expression, or
\* order.quantity * price with a None operand.
LoopRaises(S, price) ==
    S # {} /\ (~price.ok \/ price.v = None \/ \E o \in S : o.quantity = None)

AnalysisResponse(product, revenue, quantity) ==
    [product_id |-> product.id, product_name |-> product.name,
     total_revenue |-> revenue, total_quantity_sold |-> quantity]

\* GET /analysis/revenue/{product_id}
revenue_outcome(product_id) ==
    IF ById(products, product_id) = {}
    THEN HTTPException(404, "Product with ID not found")
    ELSE LET product == Row(products, product_id)
             rows == { o \in orders : o.product_id = product_id }
             price == price_revenue(product)
         IN  IF LoopRaises(rows, price) THEN Unhandled("TypeError")
             ELSE Return(200, <<AnalysisResponse(product,
                                    IF rows = {} THEN 0 ELSE SumRevenue(rows, price.v),
                                    SumQuantity(rows))>>)

get_total_revenue_per_product(product_id) ==
    /\ last' = Last("get_total_revenue_per_product", product_id, None,
                    revenue_outcome(product_id))
    /\ UNCHANGED <<products, customers, orders, categories, now, hist, conc>>

\* func.sum(Order.quantity) of one group: SQL's SUM skips NULLs and is NULL
\* when every quantity of the group is NULL.
SqlSum(product_id) ==
    LET rows == { o \in orders : o.product_id = product_id /\ o.quantity # None }
    IN  IF rows = {} THEN None ELSE SumQuantity(rows)

\* The rows that `group_by(Order.product_id).order_by(sum.desc()).first()` may
\* return: a group with the largest sum, any of them on a tie; where a NULL
\* sum sorts is the store's choice, so a group with a NULL sum may come first.
TopSelling ==
    LET groups == { o.product_id : o \in orders }
        known == { g \in groups : SqlSum(g) # None }
    IN  { g \in groups : SqlSum(g) = None \/ \A h \in known : SqlSum(h) <= SqlSum(g) }

\* GET /analysis/highest-selling, the first row being the group top_selling.
highest_outcome(top_selling) ==
    IF ById(products, top_selling) = {}
    THEN HTTPException(404, "Product with ID not found")
    ELSE LET product == Row(products, top_selling)
             rows == { o \in orders : o.product_id = product.id }
             price == price_highest(product)
         IN  IF LoopRaises(rows, price) THEN Unhandled("TypeError")
             ELSE Return(200, <<AnalysisResponse(product, SumRevenue(rows, price.v),
                                                 SqlSum(top_selling))>>)

\* What GET /analysis/highest-selling may end in.
highest_outcomes ==
    IF orders = {} THEN {HTTPException(404, "No sales data found")}
    ELSE { highest_outcome(top_selling) : top_selling \in TopSelling }

get_highest_selling_product ==
    /\ \E out \in highest_outcomes :
           last' = Last("get_highest_selling_product", 0, None, out)
    /\ UNCHANGED <<products, customers, orders, categories, now, hist, conc>>

\* ------------------------------------------------------------------ sample data
\* POST /create-sample-data: nothing when an order exists; else a category,
\* then the customer (its commit raises IntegrityError when the email is in
\* use, after the category was committed), then two products and two orders.
create_sample_data ==
    /\ UNCHANGED <<now, hist, conc>>
    /\ IF orders # {}
       THEN /\ UNCHANGED <<products, customers, orders, categories>>
            /\ last' = Last("create_sample_data", 0, None, Return(200, <<>>))
       ELSE /\ categories < MaxCategories
            /\ categories' = categories + 1
            /\ IF EmailInUse(SampleEmail)
               THEN /\ UNCHANGED <<products, customers, orders>>
                    /\ last' = Last("create_sample_data", 0, None,
                                    Unhandled("IntegrityError"))
               ELSE \E c \in CustomerIds \cap {NewId(customers)} :
                    \E p1 \in ProductIds \cap {NewId(products)} :
                    \E p2 \in ProductIds \cap {p1 + 1} :
                    \E o1 \in OrderIds \cap {1} : \E o2 \in OrderIds \cap {2} :
                      /\ customers' = customers \cup
                            {[id |-> c, first_name |-> "John", email |-> SampleEmail]}
                      /\ products' = products \cup
                            {[id |-> p1, name |-> "Sample Unshipped Product",
                              price |-> 2999, is_sale |-> False, sale_price |-> 0],
                             [id |-> p2, name |-> "Sample Shipped Product",
                              price |-> 4999, is_sale |-> False, sale_price |-> 0]}
                      /\ orders' =
                            {[id |-> o1, product_id |-> p1, customer_id |-> c,
                              quantity |-> 2, status |-> False, date_shipped |-> None],
                             [id |-> o2, product_id |-> p2, customer_id |-> c,
                              quantity |-> 1, status |-> True, date_shipped |-> now]}
                      /\ last' = Last("create_sample_data", 0, None, Return(200, <<>>))

\* Time passes between requests.
Tick ==
    /\ now < MaxTime
    /\ now' = now + 1
    /\ UNCHANGED <<products, customers, orders, categories, last, hist, conc>>

Init ==
    /\ products = {}
    /\ customers = {}
    /\ orders = {}
    /\ categories = 0
    /\ now = 1
    /\ last = [op |-> "start", id |-> 0, arg |-> None, status |-> 200, prev |-> None]
    /\ stamp = [i \in OrderIds |-> None]
    /\ issued = [e \in Emails |-> None]
    /\ pc = [p \in Procs |-> "idle"]
    /\ local = [p \in Procs |-> NoRequest]
    /\ res = [p \in Procs |-> NoResponse]

\* ------------------------------------------------------------------ specification
\* Spec: the shipping life of orders.  One product payload and one customer
\* payload give orders something to reference; the updates carry a status.
CreateProduct == create_product(SaleProduct)
CreateCustomer == create_customer(Ann)
CreateOrder == create_order([product_id |-> 1, customer_id |-> 1, quantity |-> 1])
UpdateOrder ==
    \E id \in 1..(MaxOrders + 1) : \E payload \in StatusUpdates : update_order(id, payload)
DeleteOrder == \E id \in OrderIds : delete_order(id)

Next ==
    \/ CreateProduct
    \/ CreateCustomer
    \/ CreateOrder
    \/ UpdateOrder
    \/ DeleteOrder
    \/ create_sample_data
    \/ Tick

Spec == Init /\ [][Next]_vars

\* SpecOrders: orders whose product or customer is missing or whose fields
\* are null, and the endpoints that read them.
OCreateOrder == \E payload \in OrderCreates : create_order(payload)
PlaceOrder ==
    \E payload \in { [product_id |-> 1, customer_id |-> 1, quantity |-> 1],
                      [product_id |-> 2, customer_id |-> 1, quantity |-> 3] } :
        create_order(payload)
OUpdateOrder ==
    \E id \in 1..(MaxOrders + 1) : \E payload \in FieldUpdates : update_order(id, payload)
ODeleteProduct == \E id \in ProductIds : delete_product(id)
GetAllOrders ==
    \E skip \in {0, 1} : \E shipped \in {None, True, False} :
        get_all_orders(skip, 100, shipped)
GetOrder == \E id \in 1..(MaxOrders + 1) : get_order(id)
GetRevenue == \E id \in 1..(MaxProducts + 1) : get_total_revenue_per_product(id)

NextOrders ==
    \/ CreateProduct
    \/ ODeleteProduct
    \/ CreateCustomer
    \/ PlaceOrder
    \/ OUpdateOrder
    \/ DeleteOrder
    \/ GetAllOrders
    \/ GetOrder
    \/ get_orders_shipped
    \/ get_orders_unshipped
    \/ GetRevenue
    \/ get_highest_selling_product

SpecOrders == Init /\ [][NextOrders]_vars

\* SpecPricing: the catalogue and its prices, the orders placed on it and
\* the endpoints that compute an amount.
PCreateProduct == \E payload \in {SaleProduct, ListProduct} : create_product(payload)
PUpdateProduct ==
    \E id \in ProductIds : \E payload \in ProductUpdates : update_product(id, payload)
PGetAllOrders == get_all_orders(0, 100, None)

NextPricing ==
    \/ PCreateProduct
    \/ PUpdateProduct
    \/ CreateCustomer
    \/ OCreateOrder
    \/ PGetAllOrders
    \/ GetOrder
    \/ GetRevenue
    \/ get_highest_selling_product

SpecPricing == Init /\ [][NextPricing]_vars

\* SpecCustomers: registrations one after another, and the seeding that
\* inserts a customer of its own.
CCreateCustomer == \E payload \in CustomerCreates : create_customer(payload)

NextCustomers ==
    \/ CCreateCustomer
    \/ DeleteOrder
    \/ create_sample_data

SpecCustomers == Init /\ [][NextCustomers]_vars

\* SpecConc: registrations at once, their queries and commits interleaved.
CustomerQuery == \E p \in Procs : \E payload \in CustomerCreates : customer_query(p, payload)
CustomerCommit == \E p \in Procs : customer_commit(p)

NextConc ==
    \/ CustomerQuery
    \/ CustomerCommit

SpecConc == Init /\ [][NextConc]_vars

\* ------------------------------------------------------------------ claims
\* C1: in every state reached by POST /orders, PUT /orders/{id} (status sent
\* as true, false or null, or omitted), DELETE /orders/{id} and POST
\* /create-sample-data, every stored order has status true exactly when its
\* date_shipped is set.
ShippedIffDated ==
    \A o \in orders : (o.status = True) <=> (o.date_shipped # None)

\* A shipped order was sent status=null: its status is null and its
\* date_shipped is cleared.
ShippedThenNulled ==
    /\ last.op = "update_order" /\ last.arg = None /\ last.prev # None
    /\ \E o \in orders : o.id = last.id /\ o.status = None /\ o.date_shipped = None

\* C2: after a PUT with status=true the order is dated, and when an earlier
\* PUT with status=true stamped it and no PUT with status=false came since,
\* the date is the time of that first PUT.
ReshipKeepsStampSinceFalse ==
    (last.op = "update_order" /\ last.arg = True /\ last.status # 404) =>
        \A o \in ById(orders, last.id) :
            /\ o.date_shipped # None
            /\ stamp[o.id] # None => o.date_shipped = stamp[o.id]

\* C3: with POST /customers requests run one after another, a request whose
\* email was registered by an earlier one returns the id returned then, adds
\* no record and changes no field of a record; and no two customers ever
\* share an email.
NoDuplicateEmail ==
    \A c1, c2 \in customers : c1.email = c2.email => c1 = c2

SecondRegistrationReturnsFirst ==
    \A payload \in CustomerCreates :
        create_customer(payload) =>
            /\ last'.status = 201
            /\ issued[payload.email] # None =>
                   /\ last'.id = issued[payload.email]
                   /\ customers' = customers

RegistrationIdempotent ==
    []NoDuplicateEmail /\ [][SecondRegistrationReturnsFirst]_vars

\* A second request for a registered email was answered with the first id.
RegisteredTwice ==
    /\ last.op = "create_customer" /\ last.prev = 1 /\ last.status = 201
    /\ \E c \in customers : c.id = last.id /\ issued[c.email] = c.id
    /\ Cardinality(customers) = 2

\* C4: two POST /customers with the same unregistered email, both having run
\* their query before either inserted, both end without an error, return the
\* same customer id, and one customer with that email is stored.
ConcurrentRegistrationsSucceed ==
    \A p, q \in Procs :
        (/\ p # q /\ pc[p] = "done" /\ pc[q] = "done"
         /\ local[p].payload.email = local[q].payload.email
         /\ local[p].existing = {} /\ local[q].existing = {}) =>
            /\ res[p].status = 201 /\ res[q].status = 201
            /\ res[p].id = res[q].id
            /\ Cardinality(ByEmail(local[p].payload.email)) = 1

\* An order whose product and customer both exist.
Resolves(o) == ById(products, o.product_id) # {} /\ ById(customers, o.customer_id) # {}

\* A list response for the selected rows S: a success with one record for
\* each row of S that resolves and none for the others.
Serves(out, S) ==
    /\ out.kind = "return"
    /\ Len(out.body) = Cardinality({ o \in S : Resolves(o) })
    /\ { out.body[i].id : i \in 1..Len(out.body) } = { o.id : o \in { x \in S : Resolves(x) } }

\* C5: in every store state GET /orders, GET /orders-shipped and GET
\* /orders-unshipped succeed and return one enriched record for each selected
\* order that resolves and none for the others.
ListsServeEverySelectedOrder ==
    /\ last.op \in {"get_all_orders", "get_orders_shipped", "get_orders_unshipped"}
          => last.status = 200
    /\ \A shipped \in {None, True, False} :
          Serves(EnrichedList(ByIdDesc(SelectedOrders(shipped))), SelectedOrders(shipped))
    /\ \A st \in {True, False} :
          \A rows \in Orderings({ o \in orders : o.status = st }) :
              Serves(EnrichedList(rows), { o \in orders : o.status = st })

\* C6: the response to GET /orders/{id} for an order whose product or
\* customer is missing is a 404 that differs from the response for an order id
\* that does not exist.
DanglingOrderErrorIsDistinct ==
    \A i, j \in 1..(MaxOrders + 1) :
        (/\ ById(orders, i) # {} /\ ~Resolves(Row(orders, i))
         /\ ById(orders, j) = {}) =>
            /\ Respond(get_order_outcome(i)).status = 404
            /\ Respond(get_order_outcome(i)) # Respond(get_order_outcome(j))

\* C7: POST /orders with a product_id or customer_id that resolves to nothing
\* answers 404 and changes no record; otherwise it adds exactly one order, with
\* the payload's fields, status false and no date_shipped, and changes no other
\* record.
CreateOrderStep ==
    \A payload \in OrderCreates :
        create_order(payload) =>
            IF \/ ById(products, payload.product_id) = {}
               \/ ById(customers, payload.customer_id) = {}
            THEN /\ last'.status = 404
                 /\ <<products, customers, orders, categories>>' =
                        <<products, customers, orders, categories>>
            ELSE /\ \E o \in orders' :
                        /\ o.id \notin UsedIds(orders)
                        /\ orders' = orders \cup {o}
                        /\ o.product_id = payload.product_id
                        /\ o.customer_id = payload.customer_id
                        /\ o.quantity = payload.quantity
                        /\ o.status = False /\ o.date_shipped = None
                 /\ Cardinality(orders') = Cardinality(orders) + 1
                 /\ <<products, customers, categories>>' = <<products, customers, categories>>

CreateOrderContract == [][CreateOrderStep]_vars

\* A POST /orders was refused for a missing customer while orders, products
\* and customers exist; an earlier one had stored an order of quantity 3.
OrderRefusedAmongOrders ==
    /\ last.op = "create_order" /\ last.status = 404
    /\ products # {} /\ customers # {}
    /\ \E o \in orders : o.quantity = 3 /\ o.status = False

\* The pricing rule as the specification words it.
PriceRule(p) == IF p.is_sale = True /\ p.sale_price > 0 THEN p.sale_price ELSE p.price

\* C8: for every product the unit price used at each of the four computation
\* sites (the enrichment, the response of POST /orders, revenue-for-product,
\* highest-selling) is sale_price when is_sale is true and sale_price > 0 and
\* price otherwise, and the enriched amount_paid is that price times the
\* quantity.
UnitPriceEverywhere ==
    /\ \A p \in products :
          \A used \in {price_enrich(p), price_create_order(p),
                       price_revenue(p), price_highest(p)} :
              used.ok /\ used.v = PriceRule(p)
    /\ \A o \in orders :
          LET e == enrich_order_details(o)
          IN  e.kind = "view" =>
                  /\ e.items_list[1].price = PriceRule(Row(products, o.product_id))
                  /\ e.amount_paid = PriceRule(Row(products, o.product_id)) * o.quantity

\* C9: GET /analysis/revenue/{product_id} answers 404 exactly when the product
\* does not exist; otherwise it returns the sum of quantity over the stored
\* orders of the product and that sum times the product's current price.
RevenueContract ==
    \A id \in 1..(MaxProducts + 1) :
        LET out == revenue_outcome(id)
            rows == { o \in orders : o.product_id = id }
        IN  IF ById(products, id) = {}
            THEN Respond(out).status = 404
            ELSE /\ out.kind = "return"
                 /\ out.body[1].total_quantity_sold = SumQuantity(rows)
                 /\ out.body[1].total_revenue =
                        SumQuantity(rows) * PriceRule(Row(products, id))

\* C10: GET /analysis/highest-selling answers 404 when there is no order and
\* when the product_id with the largest summed quantity resolves to no
\* product; otherwise it returns a product whose summed quantity is at least
\* that of every other product_id, with that sum and that sum times the
\* product's current price.
HighestSellingContract ==
    /\ orders = {} => \A out \in highest_outcomes : Respond(out).status = 404
    /\ orders # {} =>
          \A top \in TopSelling :
              LET out == highest_outcome(top)
                  rows == { o \in orders : o.product_id = top }
              IN  IF ById(products, top) = {}
                  THEN Respond(out).status = 404
                  ELSE /\ out.kind = "return"
                       /\ out.body[1].product_id = top
                       /\ \A g \in { o.product_id : o \in orders } :
                              SumQuantity({ o \in orders : o.product_id = g })
                                  <= SumQuantity(rows)
                       /\ out.body[1].total_quantity_sold = SumQuantity(rows)
                       /\ out.body[1].total_revenue =
                              SumQuantity(rows) * PriceRule(Row(products, top))

\* SpecUpdates: partial updates of orders, with and without a status field.
FUpdateOrder ==
    \E id \in 1..(MaxOrders + 1) : \E payload \in FrameUpdates : update_order(id, payload)

NextUpdates ==
    \/ CreateProduct
    \/ CreateCustomer
    \/ CreateOrder
    \/ FUpdateOrder
    \/ DeleteOrder

SpecUpdates == Init /\ [][NextUpdates]_vars

\* SpecRace: concurrent PUT /orders/{id} requests on the orders placed.
OrderQuery ==
    \E p \in Procs : \E id \in OrderIds : \E payload \in RacingUpdates :
        order_query(p, id, payload)
OrderCommit == \E p \in Procs : order_commit(p)
OrderRespond == \E p \in Procs : order_respond(p)

NextRace ==
    \/ CreateProduct
    \/ CreateCustomer
    \/ CreateOrder
    \/ OrderQuery
    \/ OrderCommit
    \/ OrderRespond

SpecRace == Init /\ [][NextRace]_vars

\* The fields of an order that an OrderUpdate payload can carry.
OrderUpdateFields == {"product_id", "customer_id", "quantity", "status"}

\* C11: PUT /orders/{id} changes only the targeted order and in it only the
\* fields present in the payload, plus date_shipped and only when status is
\* present; an omitted field keeps its value, and every other order, product
\* and customer is unchanged.
UpdateOrderFrameStep ==
    \A order_id \in 1..(MaxOrders + 1) :
        \A payload \in FrameUpdates :
            update_order(order_id, payload) =>
                /\ products' = products /\ customers' = customers
                /\ categories' = categories
                /\ UsedIds(orders') = UsedIds(orders)
                /\ Cardinality(orders') = Cardinality(orders)
                /\ \A o \in orders : o.id # order_id => o \in orders'
                /\ \A o \in ById(orders, order_id) :
                      \E n \in ById(orders', order_id) :
                          /\ \A f \in OrderUpdateFields :
                                IF f \in DOMAIN payload THEN n[f] = payload[f]
                                ELSE n[f] = o[f]
                          /\ "status" \notin DOMAIN payload =>
                                n.date_shipped = o.date_shipped

UpdateOrderFrame == [][UpdateOrderFrameStep]_vars

\* A PUT without a status field was applied to a shipped order, next to
\* another order: the order is still shipped, with its date.
ShippedOrderUpdatedWithoutStatus ==
    /\ last.op = "update_order" /\ last.arg = Unset /\ last.prev # None
    /\ Cardinality(orders) = 2
    /\ \E o \in orders :
          /\ o.id = last.id /\ o.status = True /\ o.date_shipped = last.prev
          /\ o.customer_id = MaxCustomers + 1

\* C12: under any interleaving of the query and commit steps of concurrent
\* PUT /orders/{id} requests, every committed state of an order has status
\* true exactly when date_shipped is set: no shipped order without a date, no
\* unshipped order with one.
NoTornShipment ==
    \A o \in orders :
        /\ o.status = True => o.date_shipped # None
        /\ o.status # True => o.date_shipped = None

\* C13: a PUT /orders/{id} that does not return the order's enriched view,
\* because the order id is unknown or because the order's product or customer
\* (as the payload may just have set it) does not resolve, ends in an error
\* and leaves the stored orders unchanged.
FailedUpdateCommitsNothing ==
    \A order_id \in 1..(MaxOrders + 1) :
        \A payload \in FrameUpdates :
            LET r == update_order_result(order_id, payload)
            IN  (\/ ById(orders, order_id) = {}
                 \/ \E n \in ById(r.orders, order_id) : ~Resolves(n)) =>
                    /\ Respond(r.out).status # 200
                    /\ r.orders = orders

====
